---- MODULE Spec2Model ----
(***************************************************************************)
(* osgEarth::Util::SimplePager (src/src/osgEarthUtil/SimplePager.cpp).     *)
(*                                                                         *)
(* A quadtree tile pager: build() creates one PagedLOD ("switch node") per *)
(* root key, each PagedLOD registers a pseudo-file request for its four    *)
(* children, the pseudo-loader resolves such a request through loadKey,    *)
(* and a frame-number protocol (ProgressMaster / MyProgressCallback /     *)
(* ProgressUpdater) lets a background build find out that the node that    *)
(* asked for it is no longer being cull-traversed.                         *)
(*                                                                         *)
(* Optional values (a pointer that may be null, a field that may not have  *)
(* been written yet) are sequences of length 0 or 1.                       *)
(***************************************************************************)
EXTENDS Integers, Sequences, FiniteSets, TLC

(***************************************************************************)
(* Bounds of the model.                                                    *)
(***************************************************************************)
\* The largest value of an `unsigned`: unsigned arithmetic is modulo
\* MaxUnsigned + 1 (the program's is modulo 2^32).
MaxUnsigned == 4
\* Values the configuration setters are called with.
MaxMinLevel == 1
MaxMaxLevel == 1
\* Registered child requests are resolved for keys of a level below MaxLod.
MaxLod == 1
\* Radius of the bounding sphere of a level-0 tile.
WorldRadius == 8

(***************************************************************************)
(* Program constants.                                                      *)
(***************************************************************************)
DefaultRangeFactor == 6
DefaultMinLevel == 0
DefaultMaxLevel == 30
FLT_MAX == 1000000
PseudoExt == "osgearth_pseudo_simple"

UnsignedValues == 0..MaxUnsigned
UMod == MaxUnsigned + 1

\* a - b in unsigned arithmetic
USub(a, b) == (a - b + UMod) % UMod

Max(a, b) == IF a >= b THEN a ELSE b

RECURSIVE Pow2(_)
Pow2(n) == IF n <= 0 THEN 1 ELSE 2 * Pow2(n - 1)

\* A null pointer / a value never written.
Null == <<>>
Some(v) == <<v>>
TheValue(o) == o[1]

(***************************************************************************)
(* TileKey and Profile (external to the pager).                            *)
(***************************************************************************)
TileKey(lod, x, y) == [lod |-> lod, x |-> x, y |-> y]

\* Profile::getRootKeys: a profile with two root tiles at level 0.
getRootKeys == << TileKey(0, 0, 0), TileKey(0, 1, 0) >>

\* TileKey::createChildKey(quadrant)
createChildKey(key, i) ==
    TileKey(key.lod + 1,
            2 * key.x + (IF i = 1 \/ i = 3 THEN 1 ELSE 0),
            2 * key.y + (IF i = 2 \/ i = 3 THEN 1 ELSE 0))

\* SimplePager::getBounds: the radius of the sphere enclosing the 7x7 sample
\* points of the key's extent; a deterministic function of the key that
\* shrinks with the level.
getBounds(key) == WorldRadius \div Pow2(key.lod)

VARIABLES
    \* SimplePager configuration
    minLevel, maxLevel, additive, rangeFactor,
    \* the createNode the pager's class has
    tiles,
    \* ProgressMaster: the observer_ptr of every MyProgressCallback is valid
    \* while the pager (its only owner) exists
    masterValid, frame,
    \* MyProgressCallback::_lastFrame of every ProgressUpdater created so far,
    \* indexed by the key of the PagedLOD that owns it; Null until written
    lastFrame,
    \* children of the group build() added; Null before build()
    root,
    \* the ReadResult of the latest readNode call; Null before the first
    loaded,
    \* the createNode calls of the latest build() / readNode()
    builderCalls,
    \* the cull traversal in progress: Null when there is none, else
    \* Some([stamp, pending]): its frame stamp and the PagedLODs with a
    \* ProgressUpdater it has yet to reach
    traversal,
    \* the value of the latest isCanceled() call of a worker
    lastPoll,
    \* history: per handle, how the traversals since it was created treated it
    phase, gap,
    \* history: every traversal so far carried a frame number, and one not
    \* below the number of the traversal before it
    ordered

vars == << minLevel, maxLevel, additive, rangeFactor, tiles, masterValid, frame,
           lastFrame, root, loaded, builderCalls, traversal, lastPoll,
           phase, gap, ordered >>

configVars == << minLevel, maxLevel, additive, rangeFactor, tiles >>
graphVars == << root, loaded, builderCalls >>
frameVars == << masterValid, frame, traversal, lastPoll >>
histVars == << phase, gap, ordered >>

Handles == DOMAIN lastFrame

(***************************************************************************)
(* ProgressMaster, MyProgressCallback, ProgressUpdater                     *)
(***************************************************************************)
\* Variants of isCanceled with one slip each, for checking that the
\* properties below depend on it.
isCanceledNoValidity(valid, masterFrame, last) == USub(masterFrame, last) > 1
isCanceledAnyLag(valid, masterFrame, last) ==
    (~valid) \/ (USub(masterFrame, last) > 0)
isCanceledTwoLag(valid, masterFrame, last) ==
    (~valid) \/ (USub(masterFrame, last) > 2)
isCanceledSigned(valid, masterFrame, last) ==
    (~valid) \/ (masterFrame - last > 1)

\* MyProgressCallback::isCanceled, on the values it reads
isCanceled(valid, masterFrame, last) ==
    (~valid) \/ (USub(masterFrame, last) > 1)

\* What a read of _lastFrame yields: the constructor leaves the field
\* unwritten, so before the first touch the read is of an indeterminate value.
ReadLastFrame(h) ==
    IF lastFrame[h] = Null THEN UnsignedValues ELSE { TheValue(lastFrame[h]) }

\* The values isCanceled() of handle h may return in the current state.
Polls(h) == { isCanceled(masterValid, frame, v) : v \in ReadLastFrame(h) }

\* ProgressMaster::operator(): the frame the master records
tick(stamp) == IF stamp # Null THEN TheValue(stamp) ELSE 0

\* A variant of touch that records the frame after the stamp's.
touchNextFrame(last, stamp) ==
    IF stamp # Null THEN Some((TheValue(stamp) + 1) % UMod) ELSE last

\* MyProgressCallback::touch
touch(last, stamp) == IF stamp # Null THEN stamp ELSE last

(***************************************************************************)
(* Request ids: "<lod>_<x>_<y>.osgearth_pseudo_simple".  A string is the   *)
(* sequence of its characters; the extension is kept as one token.         *)
(***************************************************************************)
DigitChars == << "0", "1", "2", "3", "4", "5", "6", "7", "8", "9" >>

IsDigit(c) == \E d \in 1..10 : DigitChars[d] = c
DigitValue(c) == (CHOOSE d \in 1..10 : DigitChars[d] = c) - 1

\* operator<< of an unsigned: decimal, no leading zeros
RECURSIVE ToDecimal(_)
ToDecimal(n) ==
    IF n < 10 THEN << DigitChars[n + 1] >>
    ELSE ToDecimal(n \div 10) \o << DigitChars[(n % 10) + 1] >>

\* A variant of the uri that writes the row before the column.
MakeUriRowFirst(key) ==
    ToDecimal(key.lod) \o << "_" >> \o ToDecimal(key.y) \o << "_" >>
        \o ToDecimal(key.x) \o << "." >> \o << PseudoExt >>

\* the uri createPagedNode writes for a key
MakeUri(key) ==
    ToDecimal(key.lod) \o << "_" >> \o ToDecimal(key.x) \o << "_" >>
        \o ToDecimal(key.y) \o << "." >> \o << PseudoExt >>

ToLower(s) == IF s = "OSGEARTH_PSEUDO_SIMPLE" THEN PseudoExt ELSE s

\* osgDB::getLowerCaseFileExtension: what follows the last '.', lower-cased
getLowerCaseFileExtension(uri) ==
    LET dots == { i \in 1..Len(uri) : uri[i] = "." }
    IN  IF dots = {} THEN ""
        ELSE LET last == CHOOSE i \in dots : \A j \in dots : j <= i
             IN  IF last + 1 = Len(uri) THEN ToLower(uri[Len(uri)]) ELSE ""

\* ReaderWriter::acceptsExtension with the one extension the loader supports
acceptsExtension(ext) == ext = PseudoExt

\* the length of the run of digits of s that starts at position i
RECURSIVE DigitRun(_, _)
DigitRun(s, i) ==
    IF i <= Len(s) /\ IsDigit(s[i]) THEN 1 + DigitRun(s, i + 1) ELSE 0

\* the number the digits s[i..j] spell
RECURSIVE DecimalValue(_, _, _)
DecimalValue(s, i, j) ==
    IF j < i THEN 0 ELSE 10 * DecimalValue(s, i, j - 1) + DigitValue(s[j])

\* one %d conversion at position i: Null when no digit is there
ScanInt(s, i) ==
    LET n == DigitRun(s, i)
    IN  IF n = 0 THEN Null
        ELSE Some([value |-> DecimalValue(s, i, i + n - 1), next |-> i + n])

\* What an unassigned local of readNode may hold.
Indeterminate == { 0, 3 }

\* sscanf(uri, "%d_%d_%d.%*s", &lod, &x, &y): the (lod, x, y) readNode may go
\* on with.  A conversion that fails ends the scan and leaves its variable,
\* and those after it, unassigned.
sscanfKey(uri) ==
    LET a == ScanInt(uri, 1)
        sepA == a # Null /\ TheValue(a).next <= Len(uri) /\ uri[TheValue(a).next] = "_"
        b == IF sepA THEN ScanInt(uri, TheValue(a).next + 1) ELSE Null
        sepB == b # Null /\ TheValue(b).next <= Len(uri) /\ uri[TheValue(b).next] = "_"
        c == IF sepB THEN ScanInt(uri, TheValue(b).next + 1) ELSE Null
        Got(r) == IF r = Null THEN Indeterminate ELSE { TheValue(r).value }
    IN  { TileKey(l, x, y) : l \in Got(a), x \in Got(b), y \in Got(c) }

(***************************************************************************)
(* The tile builder, createNode: a virtual.  `tiles` says which builder    *)
(* the pager has:                                                          *)
(*   "default"  SimplePager::createNode: a sphere of the estimated radius  *)
(*              for every key; it never looks at progress                  *)
(*   "none"     an override that has no content for any key                *)
(*   "sparse"   an override with content for some keys only, larger or     *)
(*              smaller than the estimate, that asks progress->isCanceled()*)
(*              when it is given a progress and returns nothing when told  *)
(*              it is canceled                                             *)
(* A run of the builder is [polled, made]: what isCanceled() told it (Null *)
(* when it did not ask) and the node it returned (Null for none, else the  *)
(* radius of the node's bound).                                            *)
(***************************************************************************)
TileSets == { "default", "none", "sparse" }

sparseContent(key) ==
    IF (key.x + key.y) % 2 = 0 THEN Some(2 * getBounds(key) + 1)
    ELSE IF key.y % 2 = 0 THEN Some(getBounds(key) \div 2)
    ELSE Null

\* progress: Null, or Some(h) for the MyProgressCallback of handle h
createNode(key, progress) ==
    IF tiles = "default" THEN { [polled |-> Null, made |-> Some(getBounds(key))] }
    ELSE IF tiles = "none" THEN { [polled |-> Null, made |-> Null] }
    ELSE IF progress = Null THEN { [polled |-> Null, made |-> sparseContent(key)] }
    ELSE { [polled |-> Some(c),
            made |-> IF c THEN Null ELSE sparseContent(key)] :
              c \in Polls(TheValue(progress)) }

(***************************************************************************)
(* SimplePager::createPagedNode.  `run` is the run of createNode the call  *)
(* makes when the key is at least at the min level.  The result is the     *)
(* PagedLOD                                                                *)
(* (never a null pointer, so always Some(..)) and the createNode calls:     *)
(*   content   child 0: Null for the empty osg::Group                      *)
(*   ranges    the range list, <<min, max>> per slot                       *)
(*   fileName  the file name of slot 1, Null when none was set             *)
(*   updater   the ProgressUpdater cull callback, Null when none           *)
(*   options   the database options, Null when none: an osgDB::Options     *)
(*             whose user data container holds the pager and the updater   *)
(***************************************************************************)
\* An osgDB::Options whose user data container was created: `pager` says
\* that the container holds the SimplePager under its name, `updater` is the
\* ProgressUpdater it holds under its name (Null when it holds none).
Options(pager, updater) ==
    [ container |-> Some([pager |-> pager, updater |-> updater]) ]

\* An osgDB::Options as constructed: getUserDataContainer() returns null.
BareOptions == [ container |-> Null ]

\* Variants of the range assignment with one slip each.
RangesForSwapped(hasChildren, minRange) ==
    IF hasChildren
    THEN IF ~additive
         THEN << << 0, minRange >>, << minRange, FLT_MAX >> >>
         ELSE << << 0, FLT_MAX >>, << 0, minRange >> >>
    ELSE << << 0, FLT_MAX >> >>
RangesForAlwaysReplace(hasChildren, minRange) ==
    IF hasChildren
    THEN << << minRange, FLT_MAX >>, << 0, minRange >> >>
    ELSE << << 0, FLT_MAX >> >>

RangesFor(hasChildren, minRange) ==
    IF hasChildren
    THEN IF ~additive
         THEN << << minRange, FLT_MAX >>, << 0, minRange >> >>
         ELSE << << 0, FLT_MAX >>, << 0, minRange >> >>
    ELSE << << 0, FLT_MAX >> >>

\* Variants of the decision to subdivide with one slip each.
HasChildrenInclusive(key, invoked, node) ==
    IF invoked /\ node = Null THEN FALSE ELSE key.lod <= maxLevel
HasChildrenLeafWhenEmpty(key, invoked, node) ==
    IF node = Null THEN FALSE ELSE key.lod < maxLevel
HasChildrenIgnoringBuild(key, invoked, node) == key.lod < maxLevel

HasChildren(key, invoked, node) ==
    IF invoked /\ node = Null THEN FALSE ELSE key.lod < maxLevel

\* A variant of the radius that is the built node's whenever there is one.
TileRadiusOfContent(estimate, node) ==
    IF node # Null THEN TheValue(node) ELSE estimate

TileRadius(estimate, node) ==
    Max(IF node # Null THEN TheValue(node) ELSE estimate, estimate)

\* A variant of createPagedNode that calls createNode a second time when
\* the first call returned nothing.
createPagedNodeRetrying(key, progress, run) ==
    LET estimate == getBounds(key)
        invoked == key.lod >= minLevel
        node == IF invoked THEN run.made ELSE Null
        hasChildren == HasChildren(key, invoked, node)
        tileRadius == TileRadius(estimate, node)
        minRange == tileRadius * rangeFactor
        call == [key |-> key, progress |-> progress,
                 polled |-> run.polled, made |-> run.made]
    IN  [ plod |-> Some([ key |-> key,
                          content |-> node,
                          radius |-> tileRadius,
                          ranges |-> RangesFor(hasChildren, minRange),
                          fileName |-> IF hasChildren THEN Some(MakeUri(key)) ELSE Null,
                          updater |-> IF hasChildren THEN Some(key) ELSE Null,
                          options |-> IF hasChildren
                                      THEN Some(Options(TRUE, Some(key)))
                                      ELSE Null ]),
          calls |-> IF invoked
                    THEN IF run.made = Null THEN << call, call >> ELSE << call >>
                    ELSE << >> ]

\* A variant of createPagedNode that hands the request the progress it was
\* itself given instead of the ProgressUpdater it installs.
createPagedNodeSharingProgress(key, progress, run) ==
    LET estimate == getBounds(key)
        invoked == key.lod >= minLevel
        node == IF invoked THEN run.made ELSE Null
        hasChildren == HasChildren(key, invoked, node)
        tileRadius == TileRadius(estimate, node)
        minRange == tileRadius * rangeFactor
    IN  [ plod |-> Some([ key |-> key,
                          content |-> node,
                          radius |-> tileRadius,
                          ranges |-> RangesFor(hasChildren, minRange),
                          fileName |-> IF hasChildren THEN Some(MakeUri(key)) ELSE Null,
                          updater |-> IF hasChildren THEN Some(key) ELSE Null,
                          options |-> IF hasChildren
                                      THEN Some(Options(TRUE, progress))
                                      ELSE Null ]),
          calls |-> IF invoked
                    THEN << [key |-> key, progress |-> progress,
                             polled |-> run.polled, made |-> run.made] >>
                    ELSE << >> ]

createPagedNode(key, progress, run) ==
    LET estimate == getBounds(key)
        invoked == key.lod >= minLevel
        node == IF invoked THEN run.made ELSE Null
        hasChildren == HasChildren(key, invoked, node)
        tileRadius == TileRadius(estimate, node)
        minRange == tileRadius * rangeFactor
    IN  [ plod |-> Some([ key |-> key,
                          content |-> node,
                          radius |-> tileRadius,
                          ranges |-> RangesFor(hasChildren, minRange),
                          fileName |-> IF hasChildren THEN Some(MakeUri(key)) ELSE Null,
                          updater |-> IF hasChildren THEN Some(key) ELSE Null,
                          options |-> IF hasChildren
                                      THEN Some(Options(TRUE, Some(key)))
                                      ELSE Null ]),
          calls |-> IF invoked
                    THEN << [key |-> key, progress |-> progress,
                             polled |-> run.polled, made |-> run.made] >>
                    ELSE << >> ]

\* the runs of createNode one createPagedNode call may see
RunsFor(key, progress) ==
    IF key.lod >= minLevel THEN createNode(key, progress)
    ELSE { [polled |-> Null, made |-> Null] }

(***************************************************************************)
(* SimplePager::loadKey.  runs[i+1] is the createNode run of child i.      *)
(* The result is the group (a sequence of PagedLODs) or Null.              *)
(***************************************************************************)
ChildResults(key, progress, runs) ==
    << createPagedNode(createChildKey(key, 0), progress, runs[1]),
       createPagedNode(createChildKey(key, 1), progress, runs[2]),
       createPagedNode(createChildKey(key, 2), progress, runs[3]),
       createPagedNode(createChildKey(key, 3), progress, runs[4]) >>

\* the children loadKey adds to its group: every plod that is not null
\* A variant of the grouping that drops the PagedLODs without content.
RECURSIVE GroupChildrenWithContent(_)
GroupChildrenWithContent(results) ==
    IF results = << >> THEN << >>
    ELSE (IF Head(results).plod # Null /\ TheValue(Head(results).plod).content # Null
          THEN << TheValue(Head(results).plod) >> ELSE << >>)
         \o GroupChildrenWithContent(Tail(results))

RECURSIVE GroupChildren(_)
GroupChildren(results) ==
    IF results = << >> THEN << >>
    ELSE (IF Head(results).plod # Null THEN << TheValue(Head(results).plod) >> ELSE << >>)
         \o GroupChildren(Tail(results))

RECURSIVE AllCalls(_)
AllCalls(results) ==
    IF results = << >> THEN << >> ELSE Head(results).calls \o AllCalls(Tail(results))

loadKey(key, progress, runs) ==
    LET results == ChildResults(key, progress, runs)
        group == GroupChildren(results)
    IN  [ node |-> IF Len(group) > 0 THEN Some(group) ELSE Null,
          calls |-> AllCalls(results) ]

\* the runs of createNode one loadKey call may see
LoadRuns(key, progress) ==
    { << a, b, c, d >> :
        a \in RunsFor(createChildKey(key, 0), progress),
        b \in RunsFor(createChildKey(key, 1), progress),
        c \in RunsFor(createChildKey(key, 2), progress),
        d \in RunsFor(createChildKey(key, 3), progress) }

(***************************************************************************)
(* SimplePagerPseudoLoader::readNode.  options is the Options pointer of   *)
(* the request: Null, or Some of an Options.  The result is a ReadResult:  *)
(* [status, node].  The lookups of line 109 go through options and through *)
(* options->getUserDataContainer() without a test: with either null the    *)
(* call dereferences a null pointer and the process ends with a            *)
(* segmentation fault, recorded as the status "SIGSEGV".                   *)
(***************************************************************************)
\* options->getUserDataContainer() cannot be called on
NullDereference(options) ==
    options = Null \/ TheValue(options).container = Null

\* options->getUserDataContainer()
getUserDataContainer(options) == TheValue(TheValue(options).container)

\* the runs of createNode one readNode call may see
ReadRuns(uri, key, options) ==
    IF ~acceptsExtension(getLowerCaseFileExtension(uri)) THEN { << >> }
    ELSE IF NullDereference(options) THEN { << >> }
    ELSE IF getUserDataContainer(options).pager
         THEN LoadRuns(key, getUserDataContainer(options).updater)
         ELSE { << >> }

\* A variant of readNode that looks for the pager before the extension.
readNodePagerFirst(uri, key, options, runs) ==
    IF NullDereference(options)
    THEN [ status |-> "SIGSEGV", node |-> Null, calls |-> << >> ]
    ELSE IF ~getUserDataContainer(options).pager
    THEN [ status |-> "ERROR_IN_READING_FILE", node |-> Null, calls |-> << >> ]
    ELSE IF ~acceptsExtension(getLowerCaseFileExtension(uri))
    THEN [ status |-> "FILE_NOT_HANDLED", node |-> Null, calls |-> << >> ]
    ELSE LET r == loadKey(key, getUserDataContainer(options).updater, runs)
         IN  [ status |-> "FILE_LOADED", node |-> r.node, calls |-> r.calls ]

\* A variant of readNode that does not look for the ProgressUpdater.
readNodeWithoutProgress(uri, key, options, runs) ==
    IF ~acceptsExtension(getLowerCaseFileExtension(uri))
    THEN [ status |-> "FILE_NOT_HANDLED", node |-> Null, calls |-> << >> ]
    ELSE IF NullDereference(options)
    THEN [ status |-> "SIGSEGV", node |-> Null, calls |-> << >> ]
    ELSE IF getUserDataContainer(options).pager
         THEN LET r == loadKey(key, Null, runs)
              IN  [ status |-> "FILE_LOADED", node |-> r.node, calls |-> r.calls ]
         ELSE [ status |-> "ERROR_IN_READING_FILE", node |-> Null, calls |-> << >> ]

readNode(uri, key, options, runs) ==
    IF ~acceptsExtension(getLowerCaseFileExtension(uri))
    THEN [ status |-> "FILE_NOT_HANDLED", node |-> Null, calls |-> << >> ]
    ELSE IF NullDereference(options)
    THEN [ status |-> "SIGSEGV", node |-> Null, calls |-> << >> ]
    ELSE IF getUserDataContainer(options).pager
         THEN LET progress == getUserDataContainer(options).updater
                  r == loadKey(key, progress, runs)
              IN  [ status |-> "FILE_LOADED", node |-> r.node, calls |-> r.calls ]
         ELSE [ status |-> "ERROR_IN_READING_FILE", node |-> Null, calls |-> << >> ]

(***************************************************************************)
(* SimplePager::buildRootNode: runs[i] is the createNode run of root key i *)
(***************************************************************************)
RECURSIVE RootResults(_, _)
RootResults(keys, runs) ==
    IF keys = << >> THEN << >>
    ELSE << createPagedNode(Head(keys), Null, Head(runs)) >>
         \o RootResults(Tail(keys), Tail(runs))

\* A variant of buildRootNode that adds only the PagedLODs with content.
buildRootNodeWithContent(runs) ==
    LET results == RootResults(getRootKeys, runs)
    IN  [ node |-> GroupChildrenWithContent(results),
          calls |-> AllCalls(results) ]

buildRootNode(runs) ==
    LET results == RootResults(getRootKeys, runs)
    IN  [ node |-> GroupChildren(results),
          calls |-> AllCalls(results) ]

RECURSIVE RootRuns(_)
RootRuns(keys) ==
    IF keys = << >> THEN { << >> }
    ELSE { << a >> \o rest : a \in RunsFor(Head(keys), Null), rest \in RootRuns(Tail(keys)) }

(***************************************************************************)
(* State after SimplePager::SimplePager                                    *)
(***************************************************************************)
Init ==
    /\ minLevel = DefaultMinLevel
    /\ maxLevel = DefaultMaxLevel
    /\ additive = FALSE
    /\ rangeFactor = DefaultRangeFactor
    /\ tiles \in TileSets
    /\ masterValid = TRUE
    /\ frame = 0
    /\ lastFrame = << >>
    /\ root = Null
    /\ loaded = Null
    /\ builderCalls = << >>
    /\ traversal = Null
    /\ lastPoll = Null
    /\ phase = << >>
    /\ gap = << >>
    /\ ordered = TRUE

(***************************************************************************)
(* Configuration: the setters, called before anything is built             *)
(***************************************************************************)
RangeFactors == { DefaultRangeFactor, 2 }

NothingBuilt == root = Null /\ loaded = Null

\* the process ended in a readNode call
Crashed == loaded # Null /\ loaded.status = "SIGSEGV"

setMinLevel(v) ==
    /\ NothingBuilt
    /\ minLevel' = v
    /\ UNCHANGED << maxLevel, additive, rangeFactor, tiles, lastFrame, graphVars,
                    frameVars, histVars >>

setMaxLevel(v) ==
    /\ NothingBuilt
    /\ maxLevel' = v
    /\ UNCHANGED << minLevel, additive, rangeFactor, tiles, lastFrame, graphVars,
                    frameVars, histVars >>

setAdditive(b) ==
    /\ NothingBuilt
    /\ additive' = b
    /\ UNCHANGED << minLevel, maxLevel, rangeFactor, tiles, lastFrame, graphVars,
                    frameVars, histVars >>

setRangeFactor(f) ==
    /\ NothingBuilt
    /\ rangeFactor' = f
    /\ UNCHANGED << minLevel, maxLevel, additive, tiles, lastFrame, graphVars,
                    frameVars, histVars >>

(***************************************************************************)
(* build() and the resolution of requests                                  *)
(***************************************************************************)
Range(seq) == { seq[i] : i \in 1..Len(seq) }

\* the handles of the ProgressUpdaters installed on a sequence of PagedLODs
UpdatersOf(plods) == { TheValue(p.updater) : p \in { q \in Range(plods) : q.updater # Null } }

RootNodes == IF root = Null THEN << >> ELSE TheValue(root)
LoadedNodes ==
    IF loaded = Null THEN << >>
    ELSE IF loaded.node = Null THEN << >> ELSE TheValue(loaded.node)

\* f over the handles `keep`, with the handles `new` freshly created
WithNew(f, keep, new, fresh) ==
    [ h \in keep \cup new |-> IF h \in new THEN fresh ELSE f[h] ]

build ==
    /\ root = Null
    /\ masterValid
    /\ ~Crashed
    /\ traversal = Null
    /\ \E runs \in RootRuns(getRootKeys) :
       \E r \in { buildRootNode(runs) } :
         LET new == UpdatersOf(r.node)
         IN  /\ root' = Some(r.node)
             /\ builderCalls' = r.calls
             /\ lastFrame' = WithNew(lastFrame, Handles, new, Null)
             /\ phase' = WithNew(phase, Handles, new, "untouched")
             /\ gap' = WithNew(gap, Handles, new, Null)
    /\ UNCHANGED << configVars, loaded, frameVars, ordered >>

\* One call of the pseudo-loader.  A call that returns a group replaces the
\* group of the previous call (whose PagedLODs the engine has pruned); a call
\* that returns none leaves every ProgressUpdater there is.
ReadNodeCall(uri, options) ==
    /\ masterValid
    /\ ~Crashed
    /\ \E key \in sscanfKey(uri) :
       \E runs \in ReadRuns(uri, key, options) :
       \E r \in { readNode(uri, key, options, runs) } :
         LET new == IF r.node = Null THEN {} ELSE UpdatersOf(TheValue(r.node))
             keep == IF r.node = Null THEN Handles ELSE UpdatersOf(RootNodes)
         IN  /\ loaded' = [ status |-> r.status, node |-> r.node,
                            uri |-> uri, options |-> options, key |-> key ]
             /\ builderCalls' = r.calls
             /\ lastFrame' = WithNew(lastFrame, keep, new, Null)
             /\ phase' = WithNew(phase, keep, new, "untouched")
             /\ gap' = WithNew(gap, keep, new, Null)
    /\ UNCHANGED << configVars, root, frameVars, ordered >>

\* The database pager resolves the request a PagedLOD of the graph registered.
ResolveRequest ==
    \E p \in Range(RootNodes) \cup Range(LoadedNodes) :
        /\ p.fileName # Null
        /\ p.key.lod < MaxLod
        /\ ReadNodeCall(TheValue(p.fileName), p.options)

\* Any other read the registry hands to the pseudo-loader.
OtherUris ==
    { MakeUri(TileKey(1, 2, 3)),
      << "1", "_", "2", "_", "3", ".", "osgb" >>,
      << "1", "0", "_", "1", "2", ".", PseudoExt >> }

OtherOptions ==
    { Null, Some(BareOptions), Some(Options(FALSE, Null)), Some(Options(TRUE, Null)) }
    \cup { Some(Options(TRUE, Some(h))) : h \in UpdatersOf(RootNodes) }

ReadNode ==
    \E uri \in OtherUris : \E options \in OtherOptions : ReadNodeCall(uri, options)

(***************************************************************************)
(* The cull traversal and the workers' polls                               *)
(***************************************************************************)
Stamps == { Null } \cup { Some(n) : n \in UnsignedValues }

\* the stamp is the one that follows the frame the master recorded last
Consecutive(stamp) == stamp # Null /\ TheValue(stamp) = (frame + 1) % UMod

\* ProgressMaster::operator() at the pager, for a traversal that will reach
\* the PagedLODs of `visit`
BeginTraversal ==
    /\ masterValid
    /\ traversal = Null
    /\ \E stamp \in Stamps : \E visit \in SUBSET Handles :
        /\ frame' = tick(stamp)
        /\ traversal' = Some([stamp |-> stamp, pending |-> visit])
        /\ phase' = [ h \in Handles |->
                        IF phase[h] = "steady" /\ ~(Consecutive(stamp) /\ h \in visit)
                        THEN "broken" ELSE phase[h] ]
        /\ gap' = [ h \in Handles |->
                      IF gap[h] # Null /\ Consecutive(stamp) /\ TheValue(gap[h]) < 2
                      THEN Some(TheValue(gap[h]) + 1) ELSE Null ]
        /\ ordered' = (ordered /\ stamp # Null /\ TheValue(stamp) >= frame)
    /\ UNCHANGED << configVars, graphVars, masterValid, lastFrame, lastPoll >>

\* ProgressUpdater::operator() at one PagedLOD
Touch ==
    /\ traversal # Null
    /\ \E h \in TheValue(traversal).pending :
        LET stamp == TheValue(traversal).stamp
        IN  /\ lastFrame' = [ lastFrame EXCEPT ![h] = touch(@, stamp) ]
            /\ traversal' = Some([ TheValue(traversal) EXCEPT !.pending = @ \ {h} ])
            /\ phase' = [ phase EXCEPT ![h] =
                            IF stamp # Null /\ @ = "untouched" THEN "steady" ELSE @ ]
            /\ gap' = [ gap EXCEPT ![h] = IF stamp # Null THEN Some(0) ELSE @ ]
    /\ UNCHANGED << configVars, graphVars, masterValid, frame, lastPoll, ordered >>

EndTraversal ==
    /\ traversal # Null
    /\ TheValue(traversal).pending = {}
    /\ traversal' = Null
    /\ UNCHANGED << configVars, graphVars, masterValid, frame, lastFrame,
                    lastPoll, histVars >>

\* A variant of the poll that also records the master's frame in the handle.
PollRefreshing ==
    /\ \E h \in Handles : \E r \in Polls(h) :
        /\ lastPoll' = Some([handle |-> h, result |-> r])
        /\ lastFrame' = [ lastFrame EXCEPT ![h] = Some(frame) ]
    /\ UNCHANGED << configVars, graphVars, masterValid, frame,
                    traversal, histVars >>

\* a worker calls isCanceled() on the handle it was given
Poll ==
    /\ \E h \in Handles : \E r \in Polls(h) :
        lastPoll' = Some([handle |-> h, result |-> r])
    /\ UNCHANGED << configVars, graphVars, masterValid, frame, lastFrame,
                    traversal, histVars >>

\* the pager is deleted, and its ProgressMaster with it
DestroyPager ==
    /\ masterValid
    /\ traversal = Null
    /\ masterValid' = FALSE
    /\ UNCHANGED << configVars, graphVars, frame, lastFrame, traversal,
                    lastPoll, histVars >>

(***************************************************************************)
(* Specifications.  Spec: configuring, building and resolving requests.    *)
(* SpecFrames: the built pager under cull traversals, with workers polling *)
(* the handles of its PagedLODs.                                           *)
(***************************************************************************)
Next ==
    \/ \E v \in 0..MaxMinLevel : setMinLevel(v)
    \/ \E v \in 0..MaxMaxLevel : setMaxLevel(v)
    \/ \E b \in BOOLEAN : setAdditive(b)
    \/ \E f \in RangeFactors : setRangeFactor(f)
    \/ build
    \/ ResolveRequest
    \/ ReadNode

Spec == Init /\ [][Next]_vars

NextFrames ==
    \/ build
    \/ BeginTraversal
    \/ Touch
    \/ EndTraversal
    \/ Poll
    \/ DestroyPager

SpecFrames == Init /\ [][NextFrames]_vars

(***************************************************************************)
(* Properties of the cancellation protocol (checked under SpecFrames).     *)
(*                                                                         *)
(* phase[h] is "steady" when h has been touched and, from its first touch  *)
(* on, every traversal carried the frame number that follows the previous  *)
(* one and reached h.  gap[h] = Some(g), g in 0..2, when the traversals    *)
(* since the last touch of h carried consecutive frame numbers and g of    *)
(* them have begun since that touch.                                       *)
(***************************************************************************)
Touched(h) == lastFrame[h] # Null
LastSeen(h) == TheValue(lastFrame[h])

\* C1: isCanceled() returns true if and only if the ProgressMaster is no
\* longer reachable or the master's frame is neither the handle's last
\* frame nor the one right after it (the unsigned difference exceeds 1); in
\* every other state it returns false.
C1_IsCanceledIff ==
    \A h \in Handles : \A last \in ReadLastFrame(h) :
        isCanceled(masterValid, frame, last)
            <=> (~masterValid \/ ~(frame = last \/ frame = (last + 1) % UMod))

\* a worker polled a touched handle of the living pager that lags by more
\* than one frame, and was told it is canceled
C1_Witness ==
    /\ lastPoll # Null
    /\ masterValid
    /\ Touched(TheValue(lastPoll).handle)
    /\ TheValue(lastPoll).result = TRUE
    /\ USub(frame, LastSeen(TheValue(lastPoll).handle)) > 1

MissedOneFrame(h) ==
    /\ gap[h] = Some(2)
    /\ traversal # Null
    /\ h \in TheValue(traversal).pending

\* C4 as claimed: a handle visited in frame n, not in frame n+1 and again in
\* frame n+2 never reports isCanceled() = true at any moment of the frames
\* n, n+1 and n+2.
C4_OneMissedFrameTolerated ==
    \A h \in Handles :
        (masterValid /\ gap[h] # Null /\ (TheValue(gap[h]) <= 1 \/ MissedOneFrame(h)))
            => Polls(h) = { FALSE }

\* C4 amended: such a handle reports not canceled throughout frames n and
\* n+1 and after its touch in frame n+2, and reports canceled from the tick
\* of frame n+2 until that touch.
C4_CanceledUntilTouched ==
    \A h \in Handles :
        (masterValid /\ gap[h] # Null)
            => Polls(h) = { TheValue(gap[h]) = 2 }

\* the tick of frame n+2 is done, the touch is not, and a worker polled
C4_Witness ==
    \E h \in Handles :
        /\ masterValid
        /\ MissedOneFrame(h)
        /\ lastPoll = Some([handle |-> h, result |-> TRUE])

(***************************************************************************)
(* Properties of createPagedNode and loadKey (checked under Spec), stated  *)
(* of the PagedLODs that build() and the latest readNode produced.         *)
(***************************************************************************)
AllNodes == Range(RootNodes) \cup Range(LoadedNodes)
Calls == Range(builderCalls)
Unbounded == << 0, FLT_MAX >>
HasRequest(p) == p.fileName # Null

\* C5: for a key with level >= maxLevel, createPagedNode returns a PagedLOD
\* with the one slot 0 of range [0, FLT_MAX), no file name for the children
\* and no ProgressUpdater, also when the builder produced content.
C5_MaxLevelIsLeaf ==
    \A p \in AllNodes :
        p.key.lod >= maxLevel
            => /\ p.ranges = << Unbounded >>
               /\ p.fileName = Null
               /\ p.updater = Null
               /\ p.options = Null

\* a tile at the max level for which the builder produced content
C5_Witness ==
    \E p \in AllNodes : \E c \in Calls :
        /\ p.key.lod >= maxLevel
        /\ c.key = p.key
        /\ c.made # Null
        /\ p.content # Null

\* C6: for a key with level < minLevel the builder is not invoked and slot 0
\* is the empty placeholder; if also level < maxLevel the request for the
\* children of that key is registered on slot 1.
C6_BelowMinLevel ==
    /\ \A c \in Calls : c.key.lod >= minLevel
    /\ \A p \in AllNodes :
        p.key.lod < minLevel
            => /\ p.content = Null
               /\ (p.key.lod < maxLevel
                     => /\ p.fileName = Some(MakeUri(p.key))
                        /\ Len(p.ranges) = 2)

\* a tile below the min level, without content, with its request
C6_Witness ==
    \E p \in AllNodes :
        /\ p.key.lod < minLevel
        /\ p.key.lod < maxLevel
        /\ p.content = Null
        /\ HasRequest(p)

\* C7: in replace mode every PagedLOD with a request has slot 0 visible for
\* [minRange, FLT_MAX) and slot 1 for [0, minRange), with minRange =
\* radius * rangeFactor: slot 0 starts where slot 1 ends.
C7_ReplaceRanges ==
    \A p \in AllNodes :
        (~additive /\ HasRequest(p))
            => /\ Len(p.ranges) = 2
               /\ p.ranges[1] = << p.radius * rangeFactor, FLT_MAX >>
               /\ p.ranges[2] = << 0, p.radius * rangeFactor >>
               /\ p.ranges[1][1] = p.ranges[2][2]

\* a PagedLOD with a request, built in replace mode from content larger
\* than the estimate
C7_Witness ==
    \E p \in AllNodes :
        /\ ~additive
        /\ HasRequest(p)
        /\ p.radius > getBounds(p.key)
        /\ p.ranges[1][1] > 0

\* C8: in additive mode slot 0 of every PagedLOD has range [0, FLT_MAX),
\* with or without a request; with one, slot 1 has range [0, minRange).
C8_AdditiveRanges ==
    \A p \in AllNodes :
        additive
            => /\ p.ranges[1] = Unbounded
               /\ (HasRequest(p)
                     => /\ Len(p.ranges) = 2
                        /\ p.ranges[2] = << 0, p.radius * rangeFactor >>)

\* additive mode, with a PagedLOD that has a request and one that has none
C8_Witness ==
    /\ additive
    /\ \E p \in AllNodes : HasRequest(p) /\ p.ranges[2][2] > 0
    /\ \E p \in AllNodes : ~HasRequest(p)

\* C9: when the builder is invoked for a key and returns nothing, also
\* because it saw the cancellation, createPagedNode still returns a
\* PagedLOD, whose slot 0 is the empty placeholder with range [0, FLT_MAX),
\* and registers no request, even below the max level.
C9_EmptyTileIsLeaf ==
    \A c \in Calls :
        /\ \E p \in AllNodes : p.key = c.key
        /\ \A p \in AllNodes :
            (p.key = c.key /\ c.made = Null)
                => /\ p.content = Null
                   /\ p.ranges = << Unbounded >>
                   /\ p.fileName = Null
                   /\ p.updater = Null

\* a builder that returned nothing because it saw the cancellation, for a
\* key below the max level
C9_Witness ==
    \E c \in Calls : \E p \in AllNodes :
        /\ p.key = c.key
        /\ c.polled = Some(TRUE)
        /\ c.made = Null
        /\ c.key.lod >= minLevel
        /\ c.key.lod < maxLevel

\* the latest readNode went through loadKey
Loaded == loaded # Null /\ loaded.status = "FILE_LOADED"

\* the builder was invoked for each of the four children and returned nothing
AllChildrenEmpty ==
    /\ Len(builderCalls) = 4
    /\ \A c \in Calls : c.made = Null

\* C10 as claimed: when all four children yield nothing, as when the builder
\* returns no content for any of them, the result of loadKey is absent.
C10_AbsentWhenAllEmpty ==
    (Loaded /\ AllChildrenEmpty) => loaded.node = Null

\* C10 amended: loadKey(k) always returns a group of exactly four PagedLODs,
\* one per child (L+1, 2X+dx, 2Y+dy) of k = (L,X,Y) in the order 0..3,
\* whatever the builder returned; the result is never absent.
C10_AlwaysFourChildren ==
    Loaded
        => /\ loaded.node # Null
           /\ Len(TheValue(loaded.node)) = 4
           /\ \A i \in 1..4 :
                TheValue(loaded.node)[i].key =
                    [ lod |-> loaded.key.lod + 1,
                      x |-> 2 * loaded.key.x + ((i - 1) % 2),
                      y |-> 2 * loaded.key.y + ((i - 1) \div 2) ]

\* the builder returned nothing for each of the four children, and loadKey
\* returned a group
C10_Witness ==
    /\ Loaded
    /\ AllChildrenEmpty
    /\ loaded.node # Null

(***************************************************************************)
(* Properties of the pseudo-loader (checked under Spec).  `loaded` changes *)
(* in the steps that are readNode calls, and only in them.                 *)
(***************************************************************************)
Recognized(uri) == acceptsExtension(getLowerCaseFileExtension(uri))

\* the request of the latest readNode carried no reference to the pager:
\* no Options, an Options without user data container, or a container that
\* does not hold the pager
NoPagerReference(options) ==
    NullDereference(options) \/ ~getUserDataContainer(options).pager

\* what a readNode call that returns early must leave alone
ReadLeavesAllElse ==
    /\ builderCalls' = << >>
    /\ UNCHANGED << configVars, root, frameVars, lastFrame >>

\* C11: a readNode call for an id whose extension is not the registered one
\* returns FILE_NOT_HANDLED, never ERROR_IN_READING_FILE, whether or not the
\* request carries a pager reference; it does not call loadKey (no node, no
\* createNode call) and changes nothing of the pager, the ProgressMaster or
\* any ProgressUpdater.
C11_UnknownSuffixNotHandled ==
    [][ (loaded' # loaded /\ ~Recognized(loaded'.uri))
          => /\ loaded'.status = "FILE_NOT_HANDLED"
             /\ loaded'.node = Null
             /\ ReadLeavesAllElse ]_vars

\* after build(), an id with another extension was read with a request that
\* carries no pager reference, and the answer was FILE_NOT_HANDLED
C11_Witness ==
    /\ root # Null
    /\ Handles # {}
    /\ loaded # Null
    /\ ~Recognized(loaded.uri)
    /\ NoPagerReference(loaded.options)
    /\ loaded.status = "FILE_NOT_HANDLED"

\* C12: a readNode call for an id with the registered extension whose request
\* holds no reference to the pager returns ERROR_IN_READING_FILE: loadKey is
\* not called, and the pager's configuration, the ProgressMaster and every
\* ProgressUpdater are left as they were.
C12_NoPagerIsReadError ==
    [][ (loaded' # loaded /\ Recognized(loaded'.uri)
                          /\ NoPagerReference(loaded'.options))
          => /\ loaded'.status = "ERROR_IN_READING_FILE"
             /\ loaded'.node = Null
             /\ ReadLeavesAllElse ]_vars

\* the keys of the children loadKey creates for a key, in its order
ChildKeys(key) ==
    << createChildKey(key, 0), createChildKey(key, 1),
       createChildKey(key, 2), createChildKey(key, 3) >>

\* the latest step was the readNode call that resolves the request of p
Resolves(p) ==
    /\ HasRequest(p)
    /\ loaded' # loaded
    /\ loaded'.uri = TheValue(p.fileName)
    /\ loaded'.options = p.options

\* the latest readNode call resolved the request of p
ResolvedFor(p) ==
    /\ HasRequest(p)
    /\ loaded # Null
    /\ loaded.uri = TheValue(p.fileName)
    /\ loaded.options = p.options

\* C13: the id createPagedNode writes for a key (L,X,Y) is read back by the
\* pseudo-loader as exactly (L,X,Y): the scan of every registered file name
\* yields the one key of its PagedLOD, and the readNode call that resolves
\* the request of a PagedLOD calls loadKey with the key of that PagedLOD, on
\* the pager of the request; its result holds the children of (L,X,Y).
C13_RequestIdRoundTrip ==
    \A p \in AllNodes :
        /\ HasRequest(p)
              => /\ Recognized(TheValue(p.fileName))
                 /\ sscanfKey(TheValue(p.fileName)) = { p.key }
                 /\ getUserDataContainer(p.options).pager
        /\ ResolvedFor(p)
              => /\ loaded.status = "FILE_LOADED"
                 /\ loaded.key = p.key
                 /\ loaded.node # Null
                 /\ \A i \in 1..4 :
                      TheValue(loaded.node)[i].key = ChildKeys(p.key)[i]

\* the request of the root tile (0,1,0) was resolved, and loadKey was called
\* with (0,1,0)
C13_Witness ==
    /\ Loaded
    /\ loaded.key = TileKey(0, 1, 0)
    /\ \E p \in Range(RootNodes) :
         /\ HasRequest(p)
         /\ p.key = loaded.key
         /\ loaded.uri = TheValue(p.fileName)
         /\ loaded.options = p.options
    /\ TheValue(loaded.node)[4].key = TileKey(1, 3, 1)

\* the radius of the bound of the content of p; the estimate when the
\* builder made nothing
ContentRadius(p) ==
    IF p.content # Null THEN TheValue(p.content) ELSE getBounds(p.key)

\* C14: the radius of every PagedLOD createPagedNode returns is the larger
\* of the estimate getBounds(key) and the radius of the built content, so it
\* is never below the estimate; for a PagedLOD with a request and a range
\* factor >= 0, minRange = radius * rangeFactor is at least
\* estimate * rangeFactor.
C14_RadiusNeverBelowEstimate ==
    \A p \in AllNodes :
        /\ p.radius = Max(getBounds(p.key), ContentRadius(p))
        /\ p.radius >= getBounds(p.key)
        /\ (HasRequest(p) /\ rangeFactor >= 0)
              => /\ p.ranges[2][2] = p.radius * rangeFactor
                 /\ p.ranges[2][2] >= getBounds(p.key) * rangeFactor

\* a PagedLOD with a request whose content is smaller than the estimate,
\* and one whose content is larger
C14_Witness ==
    /\ \E p \in AllNodes :
         /\ HasRequest(p)
         /\ p.content # Null
         /\ TheValue(p.content) < getBounds(p.key)
         /\ p.radius = getBounds(p.key)
    /\ \E p \in AllNodes :
         /\ HasRequest(p)
         /\ p.content # Null
         /\ TheValue(p.content) > getBounds(p.key)
         /\ p.radius = TheValue(p.content)

(***************************************************************************)
(* Properties of build() (checked under Spec).                             *)
(***************************************************************************)
\* the id "0_x_y.osgearth_pseudo_simple" of a root key with one-digit x, y
RootId(key) ==
    << "0", "_", DigitChars[key.x + 1], "_", DigitChars[key.y + 1], ".", PseudoExt >>

\* build() made one PagedLOD per root key, in the order of the root keys
OnePerRootKey ==
    /\ Len(RootNodes) = Len(getRootKeys)
    /\ \A i \in 1..Len(getRootKeys) : RootNodes[i].key = getRootKeys[i]

\* slot 0 from minRange on, slot 1 the request "0_x_y.<ext>" below minRange
ReplaceSlots(p) ==
    /\ p.ranges = << << p.radius * rangeFactor, FLT_MAX >>,
                     << 0, p.radius * rangeFactor >> >>
    /\ p.fileName = Some(RootId(p.key))

RootCase == minLevel = 0 /\ maxLevel >= 1 /\ ~additive

\* C15 as claimed: build() makes one PagedLOD per root key, in order, and
\* with minLevel = 0, maxLevel >= 1 and additive = false each of them has
\* slot 0 with range [minRange, FLT_MAX) and slot 1 with the id "0_x_y.<ext>"
\* and range [0, minRange).
C15_RootHasTwoSlots ==
    root # Null
        => /\ OnePerRootKey
           /\ RootCase => \A p \in Range(RootNodes) : ReplaceSlots(p)

\* C15 amended: build() makes one PagedLOD per root key, in order, dropping
\* none; with minLevel = 0, maxLevel >= 1 and additive = false, the PagedLOD
\* of a root key for which createNode returned content has slot 0 with range
\* [minRange, FLT_MAX) and slot 1 with the id "0_x_y.<ext>" and range
\* [0, minRange); the PagedLOD of a root key for which createNode returned
\* nothing has the one slot 0 with range [0, FLT_MAX) and no request.
C15_RootPerKeyInOrder ==
    root # Null
        => /\ OnePerRootKey
           /\ RootCase
                => \A p \in Range(RootNodes) :
                     IF p.content # Null THEN ReplaceSlots(p)
                     ELSE p.ranges = << Unbounded >> /\ p.fileName = Null

\* build() with the defaults but maxLevel = 1, on a pager whose createNode
\* makes content for both root keys: two PagedLODs, each with both slots
C15_Witness ==
    /\ root # Null
    /\ RootCase
    /\ maxLevel = 1
    /\ Len(RootNodes) = 2
    /\ \A p \in Range(RootNodes) :
         p.content # Null /\ ReplaceSlots(p) /\ p.ranges[1][1] = p.ranges[2][2]

(***************************************************************************)
(* What the cull traversal writes and the workers read (checked under      *)
(* SpecFrames).  The steps of the traversal thread are BeginTraversal (the *)
(* tick), Touch and EndTraversal; the step of a worker is Poll, which      *)
(* changes lastPoll.  What a worker reads shows in Polls(h), the values    *)
(* its isCanceled() may return.                                            *)
(***************************************************************************)
WorkerStep == lastPoll' # lastPoll

\* no step of a worker writes the master's frame
WorkersLeaveFrame == WorkerStep => frame' = frame

\* C16 as claimed: the master's frame is the only state written by the
\* traversal and read by the workers, and no worker writes it.  Then a step
\* of the traversal that leaves the frame as it is changes nothing of what
\* a worker's isCanceled() returns.
C16_OnlyFrameShared ==
    [][ /\ WorkersLeaveFrame
        /\ (traversal # Null /\ frame' = frame)
              => \A h \in Handles : Polls(h)' = Polls(h) ]_vars

\* C16 amended: the state written by the traversal and read by the workers
\* is the master's frame and the _lastFrame of every handle.  The frame is
\* written by the tick that begins a traversal and by nothing else; the
\* _lastFrame of a handle by the touch of its own PagedLOD and by nothing
\* else; a worker writes neither; and what isCanceled() of a handle returns
\* changes only when the frame, that handle's _lastFrame or the master's
\* validity does.
C16_FrameAndLastFrameShared ==
    [][ /\ WorkerStep => UNCHANGED << frame, lastFrame, masterValid >>
        /\ frame' # frame => (traversal = Null /\ traversal' # Null)
        /\ \A h \in Handles :
             /\ lastFrame'[h] # lastFrame[h]
                   => /\ traversal # Null /\ traversal' # Null
                      /\ h \in TheValue(traversal).pending
                      /\ h \notin TheValue(traversal').pending
                      /\ lastFrame'[h] = TheValue(traversal).stamp
             /\ Polls(h)' # Polls(h)
                   => \/ frame' # frame
                      \/ lastFrame'[h] # lastFrame[h]
                      \/ masterValid' # masterValid ]_vars

\* two handles under the same frame of the living master, one touched in
\* this frame and one not since two frames: a worker was told that the
\* second is canceled while the first is not
C16_Witness ==
    \E h1, h2 \in Handles :
        /\ masterValid
        /\ Touched(h1) /\ LastSeen(h1) = frame
        /\ Touched(h2) /\ frame = LastSeen(h2) + 2
        /\ Polls(h1) = { FALSE }
        /\ lastPoll = Some([handle |-> h2, result |-> TRUE])

(***************************************************************************)
(* The progress given to createNode (checked under Spec).  builderCalls    *)
(* holds the createNode calls of the latest build() or readNode.           *)
(***************************************************************************)
BuildStep == root' # root
ReadStep == loaded' # loaded

\* C17 as claimed: every createNode call the pager makes, for the root keys
\* in build() and for the child keys in loadKey, is given a progress that is
\* not null.
C17_ProgressNeverNull ==
    \A c \in Calls : c.progress # Null

\* C17 amended: the createNode calls of build(), for the root keys, are
\* given a null progress; the createNode calls of the loadKey that resolves
\* the request a PagedLOD registered are given a progress that is not null,
\* on which isCanceled() can be called; a readNode whose request holds the
\* pager and no ProgressUpdater gives a null progress as well.
C17_ProgressNullForRoots ==
    [][ /\ BuildStep => \A c \in Calls' : c.progress = Null
        /\ \A p \in AllNodes :
              Resolves(p) => \A c \in Calls' : c.progress # Null
        /\ (ReadStep /\ loaded'.status = "FILE_LOADED")
              => \A c \in Calls' :
                   (c.progress = Null)
                       <=> (getUserDataContainer(loaded'.options).updater = Null)
      ]_vars

\* the request of a root PagedLOD was resolved; the builder of each of the
\* four children was given a progress and polled its isCanceled()
C17_Witness ==
    /\ Loaded
    /\ \E p \in Range(RootNodes) :
         /\ HasRequest(p)
         /\ loaded.uri = TheValue(p.fileName)
         /\ loaded.options = p.options
    /\ Len(builderCalls) = 4
    /\ \A c \in Calls : c.progress # Null /\ c.polled # Null

\* the PagedLODs with a request among a set of PagedLODs
Requesting(nodes) == { p \in nodes : HasRequest(p) }

\* p has a ProgressUpdater of its own, which is a handle of the master, and
\* its request carries the pager and that ProgressUpdater
OwnsItsHandle(p, nodes, handles) ==
    /\ p.updater # Null
    /\ TheValue(p.updater) \in handles
    /\ p.options # Null
    /\ ~NullDereference(p.options)
    /\ getUserDataContainer(p.options).pager
    /\ getUserDataContainer(p.options).updater = p.updater
    /\ \A q \in Requesting(nodes) : q # p => q.updater # p.updater

\* C18: every PagedLOD that registers a request has a ProgressUpdater of its
\* own, created for it and attached to the pager's ProgressMaster, and the
\* readNode call that resolves the request of the PagedLOD of key K passes
\* the progress of that ProgressUpdater, and of no other PagedLOD, to loadKey
\* and on to createNode for each child of K.
C18_OwnHandlePassedOn ==
    [][ /\ \A p \in Requesting(AllNodes') : OwnsItsHandle(p, AllNodes', Handles')
        /\ \A p \in AllNodes :
              Resolves(p)
                => /\ Len(builderCalls')
                        = (IF p.key.lod + 1 >= minLevel THEN 4 ELSE 0)
                   /\ \A c \in Calls' :
                        /\ c.progress = p.updater
                        /\ \A q \in Requesting(AllNodes) :
                              q # p => c.progress # q.updater
      ]_vars

\* the request of the root PagedLOD (0,1,0) was resolved while the root
\* PagedLOD (0,0,0) has a request too: createNode was called for the four
\* children with the progress of (0,1,0)
C18_Witness ==
    /\ Loaded
    /\ loaded.key = TileKey(0, 1, 0)
    /\ Len(builderCalls) = 4
    /\ \A c \in Calls : c.progress = Some(TileKey(0, 1, 0))
    /\ \E p, q \in Requesting(Range(RootNodes)) :
         /\ p.key = TileKey(0, 1, 0)
         /\ q.key = TileKey(0, 0, 0)
         /\ loaded.options = p.options
         /\ loaded.options # q.options

(***************************************************************************)
(* When createNode is called (checked under Spec).                         *)
(***************************************************************************)
\* the keys of a sequence of createNode calls, in the order of the calls
RECURSIVE KeysOf(_)
KeysOf(calls) ==
    IF calls = << >> THEN << >> ELSE << Head(calls).key >> \o KeysOf(Tail(calls))

\* the keys of `keys` createPagedNode calls createNode for
RECURSIVE AtMinLevel(_)
AtMinLevel(keys) ==
    IF keys = << >> THEN << >>
    ELSE (IF Head(keys).lod >= minLevel THEN << Head(keys) >> ELSE << >>)
         \o AtMinLevel(Tail(keys))

\* C19: createPagedNode(key) calls createNode at most once, for key itself
\* and for no child of key, also when createNode returned nothing.  build()
\* calls createNode for root keys only, once each; the createNode calls for
\* the children of a key are made by the loadKey that resolves its request,
\* once per child and resolution; a readNode that does not reach loadKey
\* calls createNode for no key.
C19_BuilderCalledLazilyOnce ==
    [][ /\ BuildStep => KeysOf(builderCalls') = AtMinLevel(getRootKeys)
        /\ (ReadStep /\ loaded'.status = "FILE_LOADED")
              => KeysOf(builderCalls') = AtMinLevel(ChildKeys(loaded'.key))
        /\ (ReadStep /\ loaded'.status # "FILE_LOADED")
              => builderCalls' = << >>
        /\ \A p \in AllNodes' :
              Cardinality({ i \in 1..Len(builderCalls') :
                               builderCalls'[i].key = p.key }) <= 1
      ]_vars

\* after build() called createNode for the two root keys, the request of a
\* root PagedLOD was resolved; createNode was called once for each of the
\* four children, and was not called again for those it made nothing for
C19_Witness ==
    /\ root # Null
    /\ \A p \in Range(RootNodes) : p.content # Null
    /\ Loaded
    /\ loaded.key \in Range(getRootKeys)
    /\ KeysOf(builderCalls) = ChildKeys(loaded.key)
    /\ \E c \in Calls : c.made = Null
    /\ \E c \in Calls : c.made # Null

(***************************************************************************)
(* The unsigned subtraction of isCanceled (checked under SpecFrames).      *)
(***************************************************************************)
\* C20: the tick of a traversal runs before the touches of that traversal,
\* so as long as every traversal carried a frame number not below that of
\* the traversal before it, every touched handle has _lastFrame <= _frame
\* and the unsigned subtraction _frame - _lastFrame of isCanceled() equals
\* the difference of the two numbers: it does not wrap around.
C20_NoWrapWhenOrdered ==
    ordered
        => \A h \in Handles :
             Touched(h)
                 => /\ LastSeen(h) <= frame
                    /\ USub(frame, LastSeen(h)) = frame - LastSeen(h)

\* frames in non-decreasing order up to the largest frame number: the tick
\* of the traversal is done, one handle was touched in it, and another, last
\* touched in an earlier frame, is yet to be touched
C20_Witness ==
    /\ ordered
    /\ frame = MaxUnsigned
    /\ traversal # Null
    /\ \E h1, h2 \in Handles :
         /\ Touched(h1) /\ LastSeen(h1) = frame
         /\ h1 \notin TheValue(traversal).pending
         /\ Touched(h2) /\ 0 < LastSeen(h2) /\ LastSeen(h2) < frame
         /\ h2 \in TheValue(traversal).pending
         /\ Polls(h1) = { FALSE }

====
